---- MODULE Spec2Model ----
(***************************************************************************)
(* Model of ml-service/main.py: the /caption, /embedding,                  *)
(* /embeddings/batch and /search handlers, the vector and caption          *)
(* utilities they use, and the two collaborators they call (the Gemini     *)
(* embedding backend and the HuggingFace captioner).                       *)
(*                                                                         *)
(* One behaviour is one request: Init draws the process configuration and  *)
(* the request, the actions are the handler's steps between its await      *)
(* points, and the collaborators' answers are chosen by the environment.   *)
(*                                                                         *)
(* Numbers.  Vectors are tuples of integers.  The vectors of the pools     *)
(* below have an integer norm, and those the handlers normalize are        *)
(* multiples of a unit axis vector, so numpy's norm, division and dot      *)
(* product are exact over the integers.                                    *)
(* Text.  A string is a tuple of one-character strings, so that strip(),   *)
(* join() and indexing are computed as Python computes them.               *)
(***************************************************************************)
EXTENDS Integers, Sequences, FiniteSets, TLC

VARIABLES
    GEMINI_API_KEY,   \* bool(GEMINI_API_KEY): the embedding credential is set
    HF_API_TOKEN,     \* bool(HF_API_TOKEN): the captioner credential is set
    request,          \* the operation called and its arguments
    pc,               \* where the handler is: "start", "query", "fanout", "hf", "done"
    qcall,            \* the single embedding call of /embedding and of the /search query
    q_emb,            \* search_endpoint: the query embedding
    embed_tasks,      \* search_endpoint: <<idx, desc>> of the items to embed
    call,             \* per fanout task: "wait", "flight", "ok", "fail"
    sem,              \* the value of the asyncio.Semaphore of the fanout
    results_map,      \* search_endpoint: idx -> embedding
    task_result,      \* embeddings_batch_endpoint: what each worker returned
    backend_stalled,  \* the embedding backend has stopped answering
    hf_caption,       \* caption_endpoint: what hf_caption_image returned, <<>> for None
    response          \* what the caller gets

vars == <<GEMINI_API_KEY, HF_API_TOKEN, request, pc, qcall, q_emb, embed_tasks,
          call, sem, results_map, task_result, backend_stalled, hf_caption, response>>

----------------------------------------------------------------------------
(* Bounds of the model *)

\* longest item list of a /search request drawn from ItemPool
MaxItems == 2
\* tasks beyond the semaphore's value in the long /search and /embeddings/batch requests
MaxExtra == 1
\* longest caption the captioner returns
MaxCaptionLen == 3

(* Program constants *)

\* asyncio.Semaphore(6) of search_endpoint
SEARCH_CONCURRENCY == 6
\* asyncio.Semaphore(8) of embeddings_batch_endpoint
BATCH_CONCURRENCY == 8

----------------------------------------------------------------------------
(* Text *)

IsSpace(c) == c = " "

RECURSIVE lstrip(_)
lstrip(s) == IF s # <<>> /\ IsSpace(Head(s)) THEN lstrip(Tail(s)) ELSE s

RECURSIVE rstrip(_)
rstrip(s) ==
    IF s # <<>> /\ IsSpace(s[Len(s)]) THEN rstrip(SubSeq(s, 1, Len(s) - 1)) ELSE s

\* str.strip()
strip(s) == rstrip(lstrip(s))

\* str.upper() of one character
upper(c) ==
    CASE c = "a" -> "A"
      [] c = "b" -> "B"
      [] c = "i" -> "I"
      [] c = "r" -> "R"
      [] OTHER -> c

\* " ".join(parts)
RECURSIVE join(_)
join(parts) ==
    IF parts = <<>> THEN <<>>
    ELSE IF Len(parts) = 1 THEN parts[1]
    ELSE parts[1] \o <<" ">> \o join(Tail(parts))

----------------------------------------------------------------------------
(* Vectors *)

RECURSIVE SumSq(_)
SumSq(v) == IF v = <<>> THEN 0 ELSE Head(v) * Head(v) + SumSq(Tail(v))

\* np.linalg.norm, exact on vectors whose squared norm is a perfect square
norm(v) == CHOOSE r \in 0..SumSq(v) : r * r = SumSq(v)

\* np.dot of two vectors of the same length
RECURSIVE dot(_, _)
dot(a, b) == IF a = <<>> THEN 0 ELSE Head(a) * Head(b) + dot(Tail(a), Tail(b))

\* [0.0] * n
zeros(n) == [i \in 1..n |-> 0]

_normalize_vector(vec) ==
    IF norm(vec) > 0 THEN [i \in 1..Len(vec) |-> vec[i] \div norm(vec)] ELSE vec

\* _cosine_similarity: a value num/den, or the ValueError np.dot raises on
\* operands of different lengths
_cosine_similarity(a, b) ==
    IF Len(a) = 0 \/ Len(b) = 0 THEN [raised |-> FALSE, num |-> 0, den |-> 1]
    ELSE IF norm(a) = 0 \/ norm(b) = 0 THEN [raised |-> FALSE, num |-> 0, den |-> 1]
    ELSE IF Len(a) # Len(b) THEN [raised |-> TRUE, num |-> 0, den |-> 1]
    ELSE [raised |-> FALSE, num |-> dot(a, b), den |-> norm(a) * norm(b)]

----------------------------------------------------------------------------
(* Collaborators *)

\* genai.embed_content(model="models/text-embedding-004", content=t) when it
\* answers with an embedding: a fixed vector per text, not normalized
genai_embed_content(t) ==
    IF t = <<>> THEN <<0, 0>>
    ELSE CASE t[1] = "r" -> <<2, 0>>
           [] t[1] = "b" -> <<0, 3>>
           [] t[1] = "i" -> <<-2, 0>>
           [] OTHER -> <<0, -1>>

\* the ways a backend call ends without an embedding: the API raises, or
\* embed_sync raises RuntimeError("Unexpected Gemini embedding response format")
BackendFailures == {"backend_error", "malformed_response"}

----------------------------------------------------------------------------
(* Requests *)

Item(title, description, embedding) ==
    [title |-> title, description |-> description, category |-> <<>>,
     location |-> <<>>, embedding |-> embedding, id |-> 0]

\* items with and without text, with no vector, a usable vector (unit, not
\* unit, zero) and a vector of another dimension than the backend's
ItemPool ==
    { Item(<<"r">>, <<>>, <<>>),
      Item(<<>>, <<"b">>, <<>>),
      Item(<<>>, <<>>, <<>>),
      Item(<<"r">>, <<>>, <<0, 7>>),
      Item(<<"b">>, <<>>, <<1, 0>>),
      Item(<<"b">>, <<>>, <<0, 0>>),
      Item(<<"r">>, <<>>, <<1, 2, 2>>) }

QueryPool == { <<>>, <<" ">>, <<"r">>, <<" ", "b">> }

TextPool == { <<>>, <<"r">>, <<"b">> }

\* the caller numbers the items by position
WithIds(s) == [i \in 1..Len(s) |-> [s[i] EXCEPT !.id = i]]

SeqsUpTo(S, n) == UNION { [1..k -> S] : k \in 0..n }

\* a list of n items that all need embedding
LongItems(n) ==
    [i \in 1..n |-> IF i % 2 = 1 THEN Item(<<"r">>, <<>>, <<>>)
                    ELSE Item(<<>>, <<"b">>, <<>>)]

LongTexts(n) == [i \in 1..n |-> IF i % 3 = 0 THEN <<"b">> ELSE <<"r">>]

\* average colours of the decoded upload, one or two per branch of
\* _extract_simple_image_features
ImagePool ==
    { <<200, 50, 50>>, <<50, 200, 50>>, <<50, 50, 200>>, <<220, 220, 50>>,
      <<200, 120, 200>>, <<50, 200, 200>>, <<220, 220, 220>>, <<50, 50, 50>>,
      <<120, 120, 120>>, <<250, 250, 250>> }

CaptionAlphabet == { " ", "a", "B", ".", "?" }

VectorPool ==
    { <<>>, <<0, 0>>, <<1, 0>>, <<0, 2>>, <<-3, 0>>, <<3, 4>>, <<4, 3>>,
      <<2>>, <<0, 0, 0>>, <<1, 2, 2>> }

NoRequest ==
    [op |-> "none", query |-> <<>>, item_descriptions |-> <<>>, texts |-> <<>>,
     text |-> <<>>, image |-> <<>>, a |-> <<>>, b |-> <<>>]

SearchRequests ==
    { [NoRequest EXCEPT !.op = "search", !.query = q, !.item_descriptions = WithIds(s)] :
        q \in QueryPool, s \in SeqsUpTo(ItemPool, MaxItems) }
    \cup
    { [NoRequest EXCEPT !.op = "search", !.query = <<"r">>,
                        !.item_descriptions = WithIds(LongItems(SEARCH_CONCURRENCY + e))] :
        e \in 1..MaxExtra }

BatchRequests ==
    { [NoRequest EXCEPT !.op = "batch", !.texts = s] : s \in SeqsUpTo(TextPool, MaxItems) }
    \cup
    { [NoRequest EXCEPT !.op = "batch", !.texts = LongTexts(BATCH_CONCURRENCY + e)] :
        e \in 1..MaxExtra }

EmbeddingRequests ==
    { [NoRequest EXCEPT !.op = "embedding", !.text = t] : t \in TextPool \cup QueryPool }

\* an upload that does not decode is the empty tuple
CaptionRequests ==
    { [NoRequest EXCEPT !.op = "caption", !.image = img] : img \in ImagePool \cup {<<>>} }

CosineRequests ==
    { [NoRequest EXCEPT !.op = "cosine", !.a = a, !.b = b] :
        a \in VectorPool, b \in VectorPool }

Requests ==
    SearchRequests \cup BatchRequests \cup EmbeddingRequests \cup CaptionRequests
    \cup CosineRequests

NoResponse == [status |-> 0]

HTTPException(status_code, detail) == [status |-> status_code, detail |-> detail]

Init ==
    /\ GEMINI_API_KEY \in BOOLEAN
    /\ HF_API_TOKEN \in BOOLEAN
    /\ request \in Requests
    /\ pc = "start"
    /\ qcall = "idle"
    /\ q_emb = <<>>
    /\ embed_tasks = <<>>
    /\ call = <<>>
    /\ sem = 0
    /\ results_map = <<>>
    /\ task_result = <<>>
    /\ backend_stalled = FALSE
    /\ hf_caption = <<>>
    /\ response = NoResponse

----------------------------------------------------------------------------
(* The fanout: tasks gated by an asyncio.Semaphore *)

Tasks == DOMAIN call

\* calls handed to the backend that have not come back
InFlight == { i \in Tasks : call[i] = "flight" }

Finished(i) == call[i] \in {"ok", "fail"}

\* a semaphore that lets one task too many in
locked_off_by_one(value) == value < 0

\* Semaphore.locked()
locked(value) == value = 0

\* asyncio.gather starts the tasks in argument order and the semaphore wakes
\* its waiters first come first served: task i enters after the tasks before it
CanAcquire(i) ==
    /\ pc = "fanout"
    /\ i \in Tasks
    /\ call[i] = "wait"
    /\ \A j \in Tasks : j < i => call[j] # "wait"
    /\ ~locked(sem)

----------------------------------------------------------------------------
(* _gemini_embed_text *)

\* what a call that comes back with an embedding returns
_gemini_embed_text(text) == _normalize_vector(genai_embed_content(text))

----------------------------------------------------------------------------
(* POST /search *)

\* the text embedded for an item that has no vector
display_text(item) ==
    LET desc == strip(join(<<item.title, item.description, item.category, item.location>>))
    IN  IF desc = <<>> THEN <<"i", "t", "e", "m">> ELSE desc

\* the loop that fills embed_tasks: the items whose "embedding" is falsy
RECURSIVE build_embed_tasks(_, _)
build_embed_tasks(items, idx) ==
    IF idx > Len(items) THEN <<>>
    ELSE IF items[idx].embedding # <<>> THEN build_embed_tasks(items, idx + 1)
    ELSE <<<<idx, display_text(items[idx])>>>> \o build_embed_tasks(items, idx + 1)

\* results_map.get(idx, [0.0] * len(q_emb))
results_map_get(rmap, idx, q) == IF idx \in DOMAIN rmap THEN rmap[idx] ELSE zeros(Len(q))

\* the fallback of the batch worker used for an item of a search
embed_item_fallback_unit(q) == <<0>>

\* the except branch of embed_item: what results_map[idx] becomes
embed_item_fallback(q) == zeros(Len(q))

\* the vector an item is scored with
item_vector(item, idx, rmap, q) ==
    IF item.embedding # <<>>
    THEN IF Len(item.embedding) # Len(q)
         THEN results_map_get(rmap, idx, q)
         ELSE _normalize_vector(item.embedding)
    ELSE results_map_get(rmap, idx, q)

similarity(emb, q) == IF Len(emb) # Len(q) THEN 0 ELSE dot(q, emb)

\* the scoring loop: one entry per item, in input order
score_items(items, rmap, q) ==
    [idx \in 1..Len(items) |->
        [item_id |-> items[idx].id,
         similarity |-> similarity(item_vector(items[idx], idx, rmap, q), q)]]

\* where x goes in a list sorted by descending similarity: after every entry
\* that does not score less
RECURSIVE insert_desc(_, _)
insert_desc(sorted, x) ==
    IF sorted = <<>> THEN <<x>>
    ELSE IF Head(sorted).similarity >= x.similarity
         THEN <<Head(sorted)>> \o insert_desc(Tail(sorted), x)
         ELSE <<x>> \o sorted

RECURSIVE sort_stable_desc(_)
sort_stable_desc(results) ==
    IF results = <<>> THEN <<>>
    ELSE insert_desc(sort_stable_desc(SubSeq(results, 1, Len(results) - 1)),
                     results[Len(results)])

Reverse(s) == [i \in 1..Len(s) |-> s[Len(s) + 1 - i]]

\* sorted ascending and then reversed: entries of equal similarity swap places
sort_asc_reversed(results) == sort_stable_desc(Reverse(results))

\* results.sort(key=lambda x: x["similarity"], reverse=True)
sort_results(results) == sort_stable_desc(results)

search_response(items, rmap, q) ==
    LET results == sort_results(score_items(items, rmap, q))
    IN  [status |-> 200, results |-> results, count |-> Len(results)]

\* a failed query embedding answered as an empty ranking
search_swallows_failure(status_code, detail) == [status |-> 200, results |-> <<>>, count |-> 0]

\* the except clauses of search_endpoint: an HTTPException is raised again,
\* any other exception becomes a 500
search_failed(status_code, detail) == HTTPException(status_code, detail)

SearchBegin ==
    /\ pc = "start"
    /\ request.op = "search"
    /\ IF strip(request.query) = <<>>
       THEN /\ response' = HTTPException(400, "query is required")
            /\ pc' = "done"
            /\ qcall' = qcall
       ELSE IF ~GEMINI_API_KEY
       THEN /\ response' = search_failed(503, "GEMINI_API_KEY not configured")
            /\ pc' = "done"
            /\ qcall' = "fail"
       ELSE /\ response' = response
            /\ pc' = "query"
            /\ qcall' = "flight"
    /\ UNCHANGED <<GEMINI_API_KEY, HF_API_TOKEN, request, q_emb, embed_tasks, call, sem,
                   results_map, task_result, backend_stalled, hf_caption>>

\* the query embedding arrives: the handler runs to its next await, the
\* gather of the item tasks, or to its return when no item needs embedding
SearchQueryReturn ==
    /\ pc = "query"
    /\ request.op = "search"
    /\ qcall = "flight"
    /\ ~backend_stalled
    /\ qcall' = "ok"
    /\ LET q == _gemini_embed_text(strip(request.query))
           tasks == build_embed_tasks(request.item_descriptions, 1)
       IN  /\ q_emb' = q
           /\ embed_tasks' = tasks
           /\ IF tasks = <<>>
              THEN /\ response' = search_response(request.item_descriptions, results_map, q)
                   /\ pc' = "done"
                   /\ UNCHANGED <<call, sem>>
              ELSE /\ call' = [i \in 1..Len(tasks) |-> "wait"]
                   /\ sem' = SEARCH_CONCURRENCY
                   /\ pc' = "fanout"
                   /\ response' = response
    /\ UNCHANGED <<GEMINI_API_KEY, HF_API_TOKEN, request, results_map, task_result,
                   backend_stalled, hf_caption>>

SearchQueryFail ==
    /\ pc = "query"
    /\ request.op = "search"
    /\ qcall = "flight"
    /\ ~backend_stalled
    /\ qcall' = "fail"
    /\ \E kind \in BackendFailures :
          response' = search_failed(500, <<"Semantic search failed", kind>>)
    /\ pc' = "done"
    /\ UNCHANGED <<GEMINI_API_KEY, HF_API_TOKEN, request, q_emb, embed_tasks, call, sem,
                   results_map, task_result, backend_stalled, hf_caption>>

\* embed_item enters "async with sem" and calls the backend
EmbedItemAcquire(i) ==
    /\ request.op = "search"
    /\ CanAcquire(i)
    /\ call' = [call EXCEPT ![i] = "flight"]
    /\ sem' = sem - 1
    /\ UNCHANGED <<GEMINI_API_KEY, HF_API_TOKEN, request, pc, qcall, q_emb, embed_tasks,
                   results_map, task_result, response, backend_stalled, hf_caption>>

EmbedItemReturn(i) ==
    /\ request.op = "search"
    /\ pc = "fanout"
    /\ i \in Tasks
    /\ call[i] = "flight"
    /\ ~backend_stalled
    /\ call' = [call EXCEPT ![i] = "ok"]
    /\ results_map' = (embed_tasks[i][1] :> _gemini_embed_text(embed_tasks[i][2])) @@ results_map
    /\ sem' = sem + 1
    /\ UNCHANGED <<GEMINI_API_KEY, HF_API_TOKEN, request, pc, qcall, q_emb, embed_tasks,
                   task_result, response, backend_stalled, hf_caption>>

EmbedItemFail(i) ==
    /\ request.op = "search"
    /\ pc = "fanout"
    /\ i \in Tasks
    /\ call[i] = "flight"
    /\ ~backend_stalled
    /\ call' = [call EXCEPT ![i] = "fail"]
    /\ results_map' = (embed_tasks[i][1] :> embed_item_fallback(q_emb)) @@ results_map
    /\ sem' = sem + 1
    /\ UNCHANGED <<GEMINI_API_KEY, HF_API_TOKEN, request, pc, qcall, q_emb, embed_tasks,
                   task_result, response, backend_stalled, hf_caption>>

\* the gather returns: score, sort, answer
SearchGather ==
    /\ request.op = "search"
    /\ pc = "fanout"
    /\ \A i \in Tasks : Finished(i)
    /\ response' = search_response(request.item_descriptions, results_map, q_emb)
    /\ pc' = "done"
    /\ UNCHANGED <<GEMINI_API_KEY, HF_API_TOKEN, request, qcall, q_emb, embed_tasks, call, sem,
                   results_map, task_result, backend_stalled, hf_caption>>

SearchNext ==
    \/ SearchBegin
    \/ SearchQueryReturn
    \/ SearchQueryFail
    \/ \E i \in Tasks : EmbedItemAcquire(i)
    \/ \E i \in Tasks : EmbedItemReturn(i)
    \/ \E i \in Tasks : EmbedItemFail(i)
    \/ SearchGather

----------------------------------------------------------------------------
(* POST /embeddings/batch *)

\* a worker that returns no vector at all for a failed text
worker_fallback_empty == <<>>

\* the except branch of worker: return [0.0]
worker_fallback == <<0>>

\* asyncio.gather(*tasks): the workers' return values in argument order
gather(returned, n) == [i \in 1..n |-> returned[i]]

BatchBegin ==
    /\ pc = "start"
    /\ request.op = "batch"
    /\ IF request.texts = <<>>
       THEN /\ response' = HTTPException(400, "texts list is required")
            /\ pc' = "done"
            /\ UNCHANGED <<call, sem>>
       ELSE /\ call' = [i \in 1..Len(request.texts) |-> "wait"]
            /\ sem' = BATCH_CONCURRENCY
            /\ pc' = "fanout"
            /\ response' = response
    /\ UNCHANGED <<GEMINI_API_KEY, HF_API_TOKEN, request, qcall, q_emb, embed_tasks,
                   results_map, task_result, backend_stalled, hf_caption>>

\* worker enters "async with sem" and calls _gemini_embed_text, which raises
\* at once when the credential is missing; worker catches that like any failure
WorkerAcquire(i) ==
    /\ request.op = "batch"
    /\ CanAcquire(i)
    /\ IF GEMINI_API_KEY
       THEN /\ call' = [call EXCEPT ![i] = "flight"]
            /\ sem' = sem - 1
            /\ task_result' = task_result
       ELSE /\ call' = [call EXCEPT ![i] = "fail"]
            /\ sem' = sem
            /\ task_result' = (i :> worker_fallback) @@ task_result
    /\ UNCHANGED <<GEMINI_API_KEY, HF_API_TOKEN, request, pc, qcall, q_emb, embed_tasks,
                   results_map, response, backend_stalled, hf_caption>>

WorkerReturn(i) ==
    /\ request.op = "batch"
    /\ pc = "fanout"
    /\ i \in Tasks
    /\ call[i] = "flight"
    /\ ~backend_stalled
    /\ call' = [call EXCEPT ![i] = "ok"]
    /\ task_result' = (i :> _gemini_embed_text(request.texts[i])) @@ task_result
    /\ sem' = sem + 1
    /\ UNCHANGED <<GEMINI_API_KEY, HF_API_TOKEN, request, pc, qcall, q_emb, embed_tasks,
                   results_map, response, backend_stalled, hf_caption>>

WorkerFail(i) ==
    /\ request.op = "batch"
    /\ pc = "fanout"
    /\ i \in Tasks
    /\ call[i] = "flight"
    /\ ~backend_stalled
    /\ call' = [call EXCEPT ![i] = "fail"]
    /\ task_result' = (i :> worker_fallback) @@ task_result
    /\ sem' = sem + 1
    /\ UNCHANGED <<GEMINI_API_KEY, HF_API_TOKEN, request, pc, qcall, q_emb, embed_tasks,
                   results_map, response, backend_stalled, hf_caption>>

BatchGather ==
    /\ request.op = "batch"
    /\ pc = "fanout"
    /\ \A i \in Tasks : Finished(i)
    /\ LET results == gather(task_result, Len(request.texts))
       IN  response' = [status |-> 200, embeddings |-> results, count |-> Len(results)]
    /\ pc' = "done"
    /\ UNCHANGED <<GEMINI_API_KEY, HF_API_TOKEN, request, qcall, q_emb, embed_tasks, call, sem,
                   results_map, task_result, backend_stalled, hf_caption>>

BatchNext ==
    \/ BatchBegin
    \/ \E i \in Tasks : WorkerAcquire(i)
    \/ \E i \in Tasks : WorkerReturn(i)
    \/ \E i \in Tasks : WorkerFail(i)
    \/ BatchGather

----------------------------------------------------------------------------
(* POST /embedding *)

EmbeddingBegin ==
    /\ pc = "start"
    /\ request.op = "embedding"
    /\ IF request.text = <<>>
       THEN /\ response' = HTTPException(400, "text is required")
            /\ pc' = "done"
            /\ qcall' = qcall
       ELSE IF ~GEMINI_API_KEY
       THEN /\ response' = HTTPException(503, "GEMINI_API_KEY not configured")
            /\ pc' = "done"
            /\ qcall' = "fail"
       ELSE /\ response' = response
            /\ pc' = "query"
            /\ qcall' = "flight"
    /\ UNCHANGED <<GEMINI_API_KEY, HF_API_TOKEN, request, q_emb, embed_tasks, call, sem,
                   results_map, task_result, backend_stalled, hf_caption>>

EmbeddingReturn ==
    /\ pc = "query"
    /\ request.op = "embedding"
    /\ qcall = "flight"
    /\ ~backend_stalled
    /\ qcall' = "ok"
    /\ LET emb == _gemini_embed_text(request.text)
       IN  response' = [status |-> 200, embedding |-> emb, dimension |-> Len(emb)]
    /\ pc' = "done"
    /\ UNCHANGED <<GEMINI_API_KEY, HF_API_TOKEN, request, q_emb, embed_tasks, call, sem,
                   results_map, task_result, backend_stalled, hf_caption>>

EmbeddingFail ==
    /\ pc = "query"
    /\ request.op = "embedding"
    /\ qcall = "flight"
    /\ ~backend_stalled
    /\ qcall' = "fail"
    /\ \E kind \in BackendFailures :
          response' = HTTPException(500, <<"Embedding generation failed", kind>>)
    /\ pc' = "done"
    /\ UNCHANGED <<GEMINI_API_KEY, HF_API_TOKEN, request, q_emb, embed_tasks, call, sem,
                   results_map, task_result, backend_stalled, hf_caption>>

EmbeddingNext == EmbeddingBegin \/ EmbeddingReturn \/ EmbeddingFail

----------------------------------------------------------------------------
(* POST /caption *)

_enhance_caption(text) ==
    IF text = <<>> THEN <<>>
    ELSE LET s == strip(text)
         IN  IF s = <<>> THEN <<>>
             ELSE LET t == <<upper(s[1])>> \o Tail(s)
                  IN  IF t[Len(t)] \notin {".", "!", "?"} THEN t \o <<".">> ELSE t

\* the dominant colour of the average colour <<r, g, b>>
dominant_color(rgb) ==
    LET r == rgb[1]
        g == rgb[2]
        b == rgb[3]
    IN  IF r > 150 /\ g < 100 /\ b < 100 THEN <<"r", "e", "d">>
        ELSE IF r < 100 /\ g > 150 /\ b < 100 THEN <<"g", "r", "e", "e", "n">>
        ELSE IF r < 100 /\ g < 100 /\ b > 150 THEN <<"b", "l", "u", "e">>
        ELSE IF r > 150 /\ g > 150 /\ b < 100 THEN <<"y", "e", "l", "l", "o", "w">>
        ELSE IF r > 150 /\ g < 150 /\ b > 150 THEN <<"p", "u", "r", "p", "l", "e">>
        ELSE IF r < 100 /\ g > 150 /\ b > 150 THEN <<"c", "y", "a", "n">>
        ELSE IF r > 200 /\ g > 200 /\ b > 200 THEN <<"w", "h", "i", "t", "e">>
        ELSE IF r < 100 /\ g < 100 /\ b < 100 THEN <<"b", "l", "a", "c", "k">>
        ELSE <<"m", "u", "l", "t", "i", "c", "o", "l", "o", "r", "e", "d">>

\* features["brightness"] > 150, the brightness being the mean of r, g and b
is_bright(rgb) == rgb[1] + rgb[2] + rgb[3] > 3 * 150

_extract_simple_image_features(rgb) ==
    [dominant_color |-> dominant_color(rgb), bright |-> is_bright(rgb)]

\* f"A {brightness_label} {features['dominant_color']} item"
basic_caption(features) ==
    <<"A", " ">>
    \o (IF features.bright THEN <<"b", "r", "i", "g", "h", "t">> ELSE <<"d", "a", "r", "k">>)
    \o <<" ">> \o features.dominant_color \o <<" ", "i", "t", "e", "m">>

\* the tail of caption_endpoint, hf being the value of hf_caption
caption_response(rgb, hf) ==
    LET features == _extract_simple_image_features(rgb)
        basic == basic_caption(features)
    IN  [status |-> 200,
         caption |-> IF hf # <<>> THEN _enhance_caption(hf)
                     ELSE _enhance_caption(basic),
         original_caption |-> basic,
         features |-> features]

\* what the captioner can answer: a caption, nothing usable, an error
\* status, or an exception (a timeout among them)
HfAnswers ==
    { [kind |-> "caption", text |-> t] : t \in SeqsUpTo(CaptionAlphabet, MaxCaptionLen) }
    \cup { [kind |-> k, text |-> <<>>] : k \in {"none", "error", "timeout"} }

\* hf_caption_image: the caption, or None (<<>>) on any failure
hf_caption_image(answer) == IF answer.kind = "caption" THEN answer.text ELSE <<>>

CaptionBegin ==
    /\ pc = "start"
    /\ request.op = "caption"
    /\ IF request.image = <<>>
       THEN /\ response' = HTTPException(400, "Invalid image file")
            /\ pc' = "done"
       ELSE IF ~HF_API_TOKEN
       THEN /\ response' = caption_response(request.image, <<>>)
            /\ pc' = "done"
       ELSE /\ response' = response
            /\ pc' = "hf"
    /\ UNCHANGED <<GEMINI_API_KEY, HF_API_TOKEN, request, qcall, q_emb, embed_tasks, call, sem,
                   results_map, task_result, backend_stalled, hf_caption>>

CaptionHfReturn ==
    /\ pc = "hf"
    /\ request.op = "caption"
    /\ \E answer \in HfAnswers :
          /\ hf_caption' = hf_caption_image(answer)
          /\ response' = caption_response(request.image, hf_caption_image(answer))
    /\ pc' = "done"
    /\ UNCHANGED <<GEMINI_API_KEY, HF_API_TOKEN, request, qcall, q_emb, embed_tasks, call, sem,
                   results_map, task_result, backend_stalled>>

CaptionNext == CaptionBegin \/ CaptionHfReturn

----------------------------------------------------------------------------
(* _cosine_similarity, called on a pair of vectors *)

CosineCall ==
    /\ pc = "start"
    /\ request.op = "cosine"
    /\ response' = [status |-> 200, value |-> _cosine_similarity(request.a, request.b)]
    /\ pc' = "done"
    /\ UNCHANGED <<GEMINI_API_KEY, HF_API_TOKEN, request, qcall, q_emb, embed_tasks, call, sem,
                   results_map, task_result, backend_stalled, hf_caption>>

----------------------------------------------------------------------------
(* The embedding backend *)

\* asyncio.to_thread(embed_sync, text) is awaited with no timeout, and
\* embed_content is called with none: when the backend stops answering, the
\* calls in flight never come back
BackendStall ==
    /\ ~backend_stalled
    /\ qcall = "flight" \/ InFlight # {}
    /\ backend_stalled' = TRUE
    /\ UNCHANGED <<GEMINI_API_KEY, HF_API_TOKEN, request, pc, qcall, q_emb, embed_tasks, call,
                   sem, results_map, task_result, response, hf_caption>>

----------------------------------------------------------------------------
Next ==
    SearchNext \/ BatchNext \/ EmbeddingNext \/ CaptionNext \/ CosineCall \/ BackendStall

Spec == Init /\ [][Next]_vars

\* /search alone.  The event loop runs a task that can enter the semaphore
\* and the handler once its gather is complete, and a backend that has not
\* stalled answers the calls it holds.
SearchInit == Init /\ request.op = "search"

SearchStep == SearchNext \/ BackendStall

FairSearchSpec ==
    /\ SearchInit
    /\ [][SearchStep]_vars
    /\ WF_vars(\E i \in Tasks : EmbedItemAcquire(i))
    /\ WF_vars(\E i \in Tasks : EmbedItemReturn(i) \/ EmbedItemFail(i))
    /\ WF_vars(SearchGather)

----------------------------------------------------------------------------
(* Properties *)

Items == request.item_descriptions

SearchAnswered == request.op = "search" /\ pc = "done" /\ response.status = 200

\* the similarity the response reports for the item numbered id
ReportedSimilarity(id) ==
    LET k == CHOOSE k \in 1..Len(response.results) : response.results[k].item_id = id
    IN  response.results[k].similarity

\* the items whose embedding task failed
FailedItems == { embed_tasks[t][1] : t \in { t \in Tasks : call[t] = "fail" } }

\* results_map had every task of the request succeeded
UnfailedMap ==
    LET slot(idx) == CHOOSE t \in 1..Len(embed_tasks) : embed_tasks[t][1] = idx
    IN  [idx \in { embed_tasks[t][1] : t \in 1..Len(embed_tasks) } |->
            _gemini_embed_text(embed_tasks[slot(idx)][2])]

\* C1: at every moment of a fanout at most 6 (/search) or 8
\* (/embeddings/batch) backend calls are in flight.
ConcurrencyCeiling ==
    /\ request.op = "search" => Cardinality(InFlight) <= 6
    /\ request.op = "batch" => Cardinality(InFlight) <= 8

\* the item fanout is at its ceiling and keeps a seventh task waiting
CeilingReached ==
    /\ request.op = "search"
    /\ Cardinality(InFlight) = 6
    /\ \E i \in Tasks : call[i] = "wait"

\* C2: a search whose query was embedded answers with one result per item
\* whichever item embeddings fail; a failed item holds a zero vector of the
\* query's dimension and scores 0, and every other item scores what it scores
\* when nothing fails.
ItemFailureIsolated ==
    (request.op = "search" /\ pc = "done" /\ qcall = "ok") =>
        /\ response.status = 200
        /\ Len(response.results) = Len(Items)
        /\ { response.results[k].item_id : k \in 1..Len(response.results) } = 1..Len(Items)
        /\ \A idx \in FailedItems :
              /\ results_map[idx] = zeros(Len(q_emb))
              /\ ReportedSimilarity(idx) = 0
        /\ \A idx \in (1..Len(Items)) \ FailedItems :
              ReportedSimilarity(idx) = score_items(Items, UnfailedMap, q_emb)[idx].similarity

\* a search answered after one item failed and another, embedded, scored 1
SomeItemFailed ==
    /\ SearchAnswered
    /\ FailedItems # {}
    /\ \E t \in Tasks : call[t] = "ok" /\ ReportedSimilarity(embed_tasks[t][1]) = 1

\* C3: a batch of N texts answers with N vectors, the i-th being the
\* embedding of the i-th text, or [0.0] when that call failed; item failures
\* never fail the batch.
BatchAligned ==
    (request.op = "batch" /\ pc = "done" /\ request.texts # <<>>) =>
        /\ response.status = 200
        /\ Len(response.embeddings) = Len(request.texts)
        /\ \A i \in 1..Len(request.texts) :
              response.embeddings[i] =
                  IF call[i] = "ok" THEN _normalize_vector(genai_embed_content(request.texts[i]))
                  ELSE <<0>>

\* a batch longer than the semaphore answered with failures among successes
BatchPartlyFailed ==
    /\ request.op = "batch"
    /\ pc = "done"
    /\ Len(request.texts) > 8
    /\ call[1] = "fail"
    /\ call[3] = "ok"
    /\ call[2] = "ok"
    /\ response.embeddings[2] # response.embeddings[3]

\* C4: when the query embedding fails the search ends in an error and returns
\* no ranking, usable item vectors or not; and no item task starts before the
\* query embedding has succeeded.
QueryFailureFatal ==
    /\ (request.op = "search" /\ qcall = "fail") =>
            /\ pc = "done"
            /\ response.status \in {500, 503}
            /\ "results" \notin DOMAIN response
    /\ (request.op = "search" /\ qcall # "ok") => Tasks = {}

\* the query embedding failed for a request whose items all carry a usable vector
QueryFailedOnEmbeddedItems ==
    /\ request.op = "search"
    /\ qcall = "fail"
    /\ GEMINI_API_KEY
    /\ Len(Items) = 2
    /\ \A idx \in 1..Len(Items) : Len(Items[idx].embedding) = 2
    /\ response.status = 500

\* C5: a successful search returns every item once, by descending similarity,
\* items of equal similarity in input order.
RankedStably ==
    SearchAnswered =>
        /\ Len(response.results) = Len(Items)
        /\ { response.results[k].item_id : k \in 1..Len(response.results) } = 1..Len(Items)
        /\ \A k, l \in 1..Len(response.results) :
              k < l =>
                  /\ response.results[k].similarity >= response.results[l].similarity
                  /\ response.results[k].similarity = response.results[l].similarity
                        => response.results[k].item_id < response.results[l].item_id

\* a ranking of more items than the semaphore admits, one of them failed,
\* that moved a later item ahead of an earlier one and holds a tie
RankingWithTie ==
    /\ SearchAnswered
    /\ Len(Items) > 6
    /\ call[1] = "fail"
    /\ \E k, l \in 1..Len(response.results) :
          /\ k < l
          /\ response.results[k].item_id > response.results[l].item_id
    /\ \E k, l \in 1..Len(response.results) :
          /\ k < l
          /\ response.results[k].similarity = response.results[l].similarity

\* C6: a search whose item tasks are running always comes to a response, a
\* backend call that never returns being given up as a failed one.
SearchAlwaysResponds == (request.op = "search" /\ pc = "fanout") ~> (pc = "done")

\* C7: without the embedding credential, embedText, embedTextBatch and
\* rankItems called with valid input answer with the configuration error.
ConfigurationErrorSurfaced ==
    (/\ ~GEMINI_API_KEY
     /\ pc = "done"
     /\ \/ request.op = "embedding" /\ request.text # <<>>
        \/ request.op = "batch" /\ request.texts # <<>>
        \/ request.op = "search" /\ strip(request.query) # <<>>)
    => response.status = 503

\* C8: an item whose vector has another dimension than the query's is given
\* to the fanout and scored with the embedding of its display text.
MismatchedVectorEmbedded ==
    (request.op = "search" /\ qcall = "ok") =>
        \A idx \in 1..Len(Items) :
            (Items[idx].embedding # <<>> /\ Len(Items[idx].embedding) # Len(q_emb)) =>
                /\ \E t \in 1..Len(embed_tasks) :
                      embed_tasks[t] = <<idx, display_text(Items[idx])>>
                /\ (SearchAnswered /\ FailedItems = {}) =>
                      ReportedSimilarity(idx) =
                          similarity(_gemini_embed_text(display_text(Items[idx])), q_emb)

\* C9: _cosine_similarity never raises; it is 0 when a vector is empty, a
\* norm is zero or the lengths differ, and dot(a, b) / (|a| |b|) otherwise.
CosineTotal ==
    (request.op = "cosine" /\ pc = "done") =>
        LET a == request.a
            b == request.b
            v == response.value
        IN  /\ ~v.raised
            /\ IF a = <<>> \/ b = <<>> \/ SumSq(a) = 0 \/ SumSq(b) = 0 \/ Len(a) # Len(b)
               THEN v.num = 0
               ELSE v.num * norm(a) * norm(b) = dot(a, b) * v.den

\* C10: whatever the captioner answers for a decodable image, the caption
\* returned is not empty, starts capitalized and ends in '.', '!' or '?'; it
\* is the enhanced caption of the captioner if there is one, of the heuristic
\* otherwise.
CaptionWellFormed ==
    (request.op = "caption" /\ pc = "done" /\ request.image # <<>>) =>
        LET c == response.caption
        IN  /\ response.status = 200
            /\ c # <<>>
            /\ upper(c[1]) = c[1]
            /\ c[Len(c)] \in {".", "!", "?"}
            /\ c = IF hf_caption # <<>> THEN _enhance_caption(hf_caption)
                   ELSE _enhance_caption(response.original_caption)

====
